---- MODULE Spec2Model ----
(***************************************************************************)
(* Labirint: the MapScreen component (src/unnamed/part_001) and its maze   *)
(* generator generateMazeGrid.                                             *)
(*                                                                         *)
(* Coordinates are held in integer ticks: one degree is TicksPerDegree     *)
(* ticks, one meter is TicksPerMeter ticks (metersPerDegree = 111000       *)
(* meters to the degree).  The expression                                  *)
(*     ((a - b) * metersPerDegree) / RESOLUTION_FACTOR                     *)
(* of the source is therefore the exact rational                           *)
(*     ((a - b) * MetersPerDegree) / (TicksPerDegree * RESOLUTION_FACTOR)  *)
(* and Math.ceil / Math.floor are taken of that rational.  Floating-point  *)
(* rounding of the double arithmetic is not modelled.                      *)
(*                                                                         *)
(* A cell is a pair <<x, y>> (x the row index, y the column index), both   *)
(* 0-based as in the source.  A Grid is a function from row indices to     *)
(* rows, a row a function from column indices to values, so that a         *)
(* JavaScript write grid[x][y] = 1 at a column outside the row extends the *)
(* row, and a read of grid[x] at a missing row is the TypeError it is in   *)
(* the source.                                                             *)
(***************************************************************************)
EXTENDS Integers, Sequences, FiniteSets, TLC

(* ---- bounds of the model ---- *)
TicksPerMeter == 2
MaxSpanLat == 3
MaxSpanLon == 5
MaxRequests == 2
MaxScreenLat == 1
MaxScreenLon == 3
MaxPathLen == 4

(* ---- program constants ---- *)
RESOLUTION_FACTOR == 1
metersPerDegree == 111000

TicksPerDegree == metersPerDegree * TicksPerMeter

Null == [null |-> TRUE]

Coordinate(lat, lon) == [latitude |-> lat, longitude |-> lon]

\* the state arrayGrid: Grid | null, held as a sequence of no grid or one grid
NullGrid == <<>>
SomeGrid(g) == <<g>>

\* pendingRemoval: the values of tracking captured by the location callbacks whose
\* effect has been cleaned up (locSub.then((sub) => sub.remove())) and whose removal
\* has not run yet
VARIABLES
  location, tracking, path, showGridPopup, arrayGrid,
  entryExitMode, entryPoint, exitPoint,
  rows, cols, grid, start, end, stack, visited,
  pc, alert, thrown,
  requests, pendingRemoval, pushes, pops, pushLog

state == <<location, tracking, path, showGridPopup, arrayGrid,
           entryExitMode, entryPoint, exitPoint>>
locals == <<rows, cols, grid, start, end, stack, visited>>
vars == <<location, tracking, path, showGridPopup, arrayGrid,
          entryExitMode, entryPoint, exitPoint,
          rows, cols, grid, start, end, stack, visited,
          pc, alert, thrown, requests, pendingRemoval, pushes, pops, pushLog>>

(* ---- arithmetic of the rasterizer ---- *)
MathMin(S) == CHOOSE m \in S : \A n \in S : m <= n
MathMax(S) == CHOOSE m \in S : \A n \in S : m >= n

\* Math.floor(num / den) and Math.ceil(num / den) for den > 0
MathFloor(num, den) == num \div den
MathCeil(num, den) == -((-num) \div den)

lats(p) == {p[i].latitude : i \in 1..Len(p)}
lons(p) == {p[i].longitude : i \in 1..Len(p)}
minLat(p) == MathMin(lats(p))
maxLat(p) == MathMax(lats(p))
minLon(p) == MathMin(lons(p))
maxLon(p) == MathMax(lons(p))

GridRows(p) ==
  MathCeil((maxLat(p) - minLat(p)) * metersPerDegree, TicksPerDegree * RESOLUTION_FACTOR)
GridCols(p) ==
  MathCeil((maxLon(p) - minLon(p)) * metersPerDegree, TicksPerDegree * RESOLUTION_FACTOR)

\* Array.from({ length: rows }, () => Array(cols).fill(0))
ZeroGrid(r, c) == [x \in 0..(r - 1) |-> [y \in 0..(c - 1) |-> 0]]

\* the projection with the operands of its subtractions exchanged
toGridCoords_Swapped(coord, p) ==
  << MathFloor((minLat(p) - coord.latitude) * metersPerDegree,
               TicksPerDegree * RESOLUTION_FACTOR),
     MathFloor((minLon(p) - coord.longitude) * metersPerDegree,
               TicksPerDegree * RESOLUTION_FACTOR) >>

toGridCoords(coord, p) ==
  << MathFloor((coord.latitude - minLat(p)) * metersPerDegree,
               TicksPerDegree * RESOLUTION_FACTOR),
     MathFloor((coord.longitude - minLon(p)) * metersPerDegree,
               TicksPerDegree * RESOLUTION_FACTOR) >>

\* the bounds test with <= for <
isInBounds_OffByOne(x, y, r, c) == x >= 0 /\ y >= 0 /\ x <= r /\ y <= c

isInBounds(x, y, r, c) == x >= 0 /\ y >= 0 /\ x < r /\ y < c

\* a direction table whose last entry steps diagonally
directions_Diagonal == << <<1, 0>>, <<-1, 0>>, <<0, 1>>, <<1, -1>> >>

\* a direction table that lost its last entry
directions_Three == << <<1, 0>>, <<-1, 0>>, <<0, 1>> >>

directions == << <<1, 0>>, <<-1, 0>>, <<0, 1>>, <<0, -1>> >>

\* the filter without its visited test
neighbors_Revisit(x, y, r, c, vis) ==
  LET cand == [i \in 1..Len(directions) |-> <<x + directions[i][1], y + directions[i][2]>>]
  IN SelectSeq(cand, LAMBDA n : isInBounds(n[1], n[2], r, c))

\* directions.map(...).filter(in bounds and not visited), in the order of directions
neighbors(x, y, r, c, vis) ==
  LET cand == [i \in 1..Len(directions) |-> <<x + directions[i][1], y + directions[i][2]>>]
  IN SelectSeq(cand, LAMBDA n : isInBounds(n[1], n[2], r, c) /\ n \notin vis)

\* the comparison with the column read from end[0]
AtEnd_RowTwice(x, y, e) == x = e[1] /\ y = e[1]

\* x === end[0] && y === end[1]
AtEnd(x, y, e) == x = e[1] /\ y = e[2]

\* the guard without its test of exitPoint
MissingData_NoExit(entry, exit, p) == entry = Null \/ Len(p) < 2

\* the guard of the early return of generateMazeGrid
MissingData(entry, exit, p) == entry = Null \/ exit = Null \/ Len(p) < 2

\* grid[x][y] = 1 on a row that exists
MarkCell(g, x, y) == [g EXCEPT ![x] = (y :> 1) @@ g[x]]

Top(s) == s[Len(s)]

\* the cells of a grid that hold 1
Passable(g) == {c \in UNION {{<<x, y>> : y \in DOMAIN g[x]} : x \in DOMAIN g} : g[c[1]][c[2]] = 1}

(* ---- the handlers ---- *)

\* generateMazeGrid up to the head of the while loop, called with the entryPoint,
\* exitPoint and path of the render whose closure the caller holds; shown is the
\* alert the caller has raised before the call
generateMazeGrid(entry, exit, p, shown) ==
  IF MissingData(entry, exit, p)
  THEN /\ alert' = "Missing data to generate maze"
       /\ thrown' = FALSE
       /\ UNCHANGED <<locals, pc, pushes, pops, pushLog>>
  ELSE /\ rows' = GridRows(p)
       /\ cols' = GridCols(p)
       /\ grid' = ZeroGrid(rows', cols')
       /\ visited' = {}
       /\ pushes' = 0
       /\ pops' = 0
       /\ pushLog' = <<>>
       /\ alert' = shown
       /\ IF entry = Null \/ exit = Null
          THEN \* toGridCoords reads coord.latitude of null: TypeError
               /\ thrown' = TRUE
               /\ UNCHANGED <<start, end, stack, pc>>
          ELSE /\ start' = toGridCoords(entry, p)
               /\ end' = toGridCoords(exit, p)
               /\ stack' = <<start'>>
               /\ thrown' = FALSE
               /\ pc' = "loop"

\* "Show 2D Array" button: onPress={generateMazeGrid}.
\* The Modal of renderGridPopup covers the buttons while showGridPopup is true.
GenerateMazeGrid ==
  /\ pc = "idle"
  /\ ~showGridPopup
  /\ requests < MaxRequests
  /\ requests' = requests + 1
  /\ generateMazeGrid(entryPoint, exitPoint, path, "none")
  /\ UNCHANGED <<state, pendingRemoval>>

\* while (stack.length > 0) fails
LoopExit ==
  /\ pc = "loop"
  /\ stack = <<>>
  /\ pc' = "publish"
  /\ UNCHANGED <<state, locals, alert, thrown, requests, pendingRemoval, pushes, pops, pushLog>>

\* grid[x][y] = 1 where grid[x] is undefined: uncaught TypeError, the handler is left
CarveThrow ==
  /\ pc = "loop"
  /\ stack # <<>>
  /\ Top(stack)[1] \notin DOMAIN grid
  /\ thrown' = TRUE
  /\ pc' = "idle"
  /\ UNCHANGED <<state, locals, alert, requests, pendingRemoval, pushes, pops, pushLog>>

\* the top of the stack is the end cell: mark it and break
CarveBreak ==
  /\ pc = "loop"
  /\ stack # <<>>
  /\ LET x == Top(stack)[1]
         y == Top(stack)[2]
     IN /\ x \in DOMAIN grid
        /\ grid' = MarkCell(grid, x, y)
        /\ visited' = visited \cup {<<x, y>>}
        /\ AtEnd(x, y, end)
  /\ pc' = "publish"
  /\ UNCHANGED <<state, rows, cols, start, end, stack, alert, thrown, requests, pendingRemoval, pushes, pops, pushLog>>

\* no unvisited in-bounds neighbour: mark and pop
CarvePop ==
  /\ pc = "loop"
  /\ stack # <<>>
  /\ LET x == Top(stack)[1]
         y == Top(stack)[2]
     IN /\ x \in DOMAIN grid
        /\ grid' = MarkCell(grid, x, y)
        /\ visited' = visited \cup {<<x, y>>}
        /\ ~AtEnd(x, y, end)
        /\ Len(neighbors(x, y, rows, cols, visited')) = 0
  /\ stack' = SubSeq(stack, 1, Len(stack) - 1)
  /\ pops' = pops + 1
  /\ UNCHANGED <<state, rows, cols, start, end, pc, alert, thrown, requests, pendingRemoval, pushes, pushLog>>

\* some unvisited in-bounds neighbour: mark and push neighbors[floor(random * length)]
CarvePush ==
  /\ pc = "loop"
  /\ stack # <<>>
  /\ LET x == Top(stack)[1]
         y == Top(stack)[2]
     IN /\ x \in DOMAIN grid
        /\ grid' = MarkCell(grid, x, y)
        /\ visited' = visited \cup {<<x, y>>}
        /\ ~AtEnd(x, y, end)
        /\ \E i \in 1..Len(neighbors(x, y, rows, cols, visited')) :
             stack' = Append(stack, neighbors(x, y, rows, cols, visited')[i])
  /\ pushes' = pushes + 1
  /\ pushLog' = Append(pushLog, Top(stack'))
  /\ UNCHANGED <<state, rows, cols, start, end, pc, alert, thrown, requests, pendingRemoval, pops>>

\* setArrayGrid(grid); setShowGridPopup(true)
Publish ==
  /\ pc = "publish"
  /\ arrayGrid' = SomeGrid(grid)
  /\ showGridPopup' = TRUE
  /\ pc' = "idle"
  /\ UNCHANGED <<location, tracking, path, entryExitMode, entryPoint, exitPoint,
                 locals, alert, thrown, requests, pendingRemoval, pushes, pops, pushLog>>

\* the Close button of the grid popup
ClosePopup ==
  /\ pc = "idle"
  /\ showGridPopup
  /\ showGridPopup' = FALSE
  /\ UNCHANGED <<location, tracking, path, arrayGrid, entryExitMode, entryPoint, exitPoint,
                 locals, pc, alert, thrown, requests, pendingRemoval, pushes, pops, pushLog>>

\* the "Set Entry & Exit" button, rendered when !tracking && path.length > 2
SetEntryExitPress ==
  /\ pc = "idle"
  /\ ~showGridPopup
  /\ ~tracking
  /\ Len(path) > 2
  /\ entryExitMode' = TRUE
  /\ entryPoint' = Null
  /\ exitPoint' = Null
  /\ alert' = "Tap on the map to set entry and exit points"
  /\ thrown' = FALSE
  /\ UNCHANGED <<location, tracking, path, showGridPopup, arrayGrid,
                 locals, pc, requests, pendingRemoval, pushes, pops, pushLog>>

StartPath_Append(loc, p) == IF loc # Null THEN Append(p, loc) ELSE p

\* the path that starting a session installs: if (location) setPath([location])
StartPath(loc, p) == IF loc # Null THEN <<loc>> ELSE p

\* the path that stopping a session leaves: the first fix appended to a path of more
\* than one fix whose last fix differs from it
ClosedPath(p) ==
  IF Len(p) > 1 /\ (p[1].latitude # p[Len(p)].latitude \/ p[1].longitude # p[Len(p)].longitude)
  THEN Append(p, p[1])
  ELSE p

\* the Start/Stop Tracking button.  setTracking re-runs the effect of [tracking]: its
\* cleanup asks for the removal of the location callback that captured the old value
\* of tracking, and a callback capturing the new value is subscribed.
toggleTracking ==
  /\ pc = "idle"
  /\ ~showGridPopup
  /\ IF tracking
     THEN /\ path' = ClosedPath(path)
          /\ tracking' = FALSE
          /\ UNCHANGED <<arrayGrid, entryExitMode, entryPoint, exitPoint>>
     ELSE /\ path' = StartPath(location, path)
          /\ tracking' = TRUE
          /\ arrayGrid' = NullGrid
          /\ entryExitMode' = FALSE
          /\ entryPoint' = Null
          /\ exitPoint' = Null
  /\ pendingRemoval' = pendingRemoval \cup {tracking}
  /\ alert' = "none"
  /\ thrown' = FALSE
  /\ UNCHANGED <<location, showGridPopup, locals, pc, requests, pushes, pops, pushLog>>

ModeAfterExit_StaysOn == TRUE

\* the selection mode after the exit point is set: setEntryExitMode(false)
ModeAfterExit == FALSE

\* a press on the map at pressedCoord.  generateMazeGrid is called from the closure of
\* the render that built this handler: it reads the entryPoint, exitPoint and path of
\* that render, not the exit point set a line earlier.
onMapPress(pressedCoord) ==
  /\ pc = "idle"
  /\ ~showGridPopup
  /\ IF ~entryExitMode
     THEN /\ alert' = "none"
          /\ thrown' = FALSE
          /\ UNCHANGED <<entryPoint, exitPoint, entryExitMode, locals, pc, pushes, pops, pushLog>>
     ELSE IF entryPoint = Null
     THEN /\ entryPoint' = pressedCoord
          /\ alert' = "Entry point set"
          /\ thrown' = FALSE
          /\ UNCHANGED <<exitPoint, entryExitMode, locals, pc, pushes, pops, pushLog>>
     ELSE IF exitPoint = Null
     THEN /\ exitPoint' = pressedCoord
          /\ entryExitMode' = ModeAfterExit
          /\ generateMazeGrid(entryPoint, exitPoint, path, "Exit point set")
          /\ UNCHANGED entryPoint
     ELSE /\ alert' = "Entry and exit points already set"
          /\ thrown' = FALSE
          /\ UNCHANGED <<entryPoint, exitPoint, entryExitMode, locals, pc, pushes, pops, pushLog>>
  /\ UNCHANGED <<location, tracking, path, showGridPopup, arrayGrid,
                 requests, pendingRemoval>>

\* the callback of watchPositionAsync that captured the value captured of tracking:
\* the one of the current effect, or one whose removal is still pending
LocationCallback(captured, coord) ==
  /\ pc = "idle"
  /\ captured \in {tracking} \cup pendingRemoval
  /\ location' = coord
  /\ IF captured
     THEN /\ Len(path) < MaxPathLen
          /\ path' = Append(path, coord)
     ELSE UNCHANGED path
  /\ UNCHANGED <<tracking, showGridPopup, arrayGrid, entryExitMode, entryPoint, exitPoint,
                 locals, pc, alert, thrown, requests, pendingRemoval, pushes, pops, pushLog>>

\* locSub.then((sub) => sub.remove()) of a cleaned-up effect runs
RemoveSubscription(captured) ==
  /\ pc = "idle"
  /\ captured \in pendingRemoval
  /\ pendingRemoval' = pendingRemoval \ {captured}
  /\ UNCHANGED <<state, locals, pc, alert, thrown, requests, pushes, pops, pushLog>>

\* getCurrentPositionAsync of the effect resolves: setLocation(coord)
CurrentPosition(coord) ==
  /\ pc = "idle"
  /\ location' = coord
  /\ UNCHANGED <<tracking, path, showGridPopup, arrayGrid, entryExitMode, entryPoint, exitPoint,
                 locals, pc, alert, thrown, requests, pendingRemoval, pushes, pops, pushLog>>

(* ---- the carve specification: generateMazeGrid on bounded inputs ---- *)

\* recorded fixes: a corner of the route and the fixes up to MaxSpan ticks from it
Origin == Coordinate(1, 1)
Fixes == {Coordinate(1 + dlat, 1 + dlon) : dlat \in 0..MaxSpanLat, dlon \in 0..MaxSpanLon}
\* map taps: one tick south-west of the route's corner up to the farthest fix
Taps == {Coordinate(lat, lon) : lat \in 0..(1 + MaxSpanLat), lon \in 0..(1 + MaxSpanLon)}

InitLocals ==
  /\ rows = 0
  /\ cols = 0
  /\ grid = ZeroGrid(0, 0)
  /\ start = <<0, 0>>
  /\ end = <<0, 0>>
  /\ stack = <<>>
  /\ visited = {}
  /\ pc = "idle"
  /\ alert = "none"
  /\ thrown = FALSE
  /\ requests = 0
  /\ pushes = 0
  /\ pops = 0
  /\ pushLog = <<>>

\* a screen after a tracking session: a short route with no points chosen yet, or a
\* closed route (toggleTracking appended the first fix) with the points tapped so far
InitCarve ==
  /\ tracking = FALSE
  /\ showGridPopup = FALSE
  /\ arrayGrid = NullGrid
  /\ pendingRemoval = {}
  /\ \/ /\ path \in {<<>>, <<Origin>>, <<Origin, Origin>>}
        /\ entryPoint = Null
        /\ exitPoint = Null
        /\ entryExitMode = FALSE
     \/ /\ \E f \in Fixes : path = <<Origin, f, Origin>>
        /\ entryPoint \in Taps \cup {Null}
        /\ exitPoint \in Taps \cup {Null}
        /\ exitPoint # Null => entryPoint # Null
        /\ entryExitMode = (entryPoint # Null /\ exitPoint = Null)
  /\ location = IF path = <<>> THEN Null ELSE path[Len(path)]
  /\ InitLocals

NextCarve ==
  \/ GenerateMazeGrid
  \/ LoopExit
  \/ CarveThrow
  \/ CarveBreak
  \/ CarvePop
  \/ CarvePush
  \/ Publish
  \/ ClosePopup
  \/ SetEntryExitPress

SpecCarve == InitCarve /\ [][NextCarve]_vars

\* the carve under the scheduling of a synchronous handler: once generateMazeGrid is
\* entered, its loop and the two setters after it run to completion
CarveStep == LoopExit \/ CarveThrow \/ CarveBreak \/ CarvePop \/ CarvePush \/ Publish
FairSpecCarve == SpecCarve /\ WF_vars(CarveStep)

(* ---- the screen specification: MapScreen from its first render ---- *)

\* the fixes the location service delivers: two corners of a box of
\* MaxScreenLat x MaxScreenLon ticks
ScreenFixes == {Coordinate(0, 0), Coordinate(MaxScreenLat, MaxScreenLon)}

\* the places the user taps: the fixes, and a place north of the box
ScreenTaps == ScreenFixes \cup {Coordinate(MaxScreenLat + 1, MaxScreenLon)}

Init ==
  /\ location = Null
  /\ tracking = FALSE
  /\ path = <<>>
  /\ showGridPopup = FALSE
  /\ arrayGrid = NullGrid
  /\ entryExitMode = FALSE
  /\ entryPoint = Null
  /\ exitPoint = Null
  /\ pendingRemoval = {}
  /\ InitLocals

Next ==
  \/ toggleTracking
  \/ \E c \in ScreenTaps : onMapPress(c)
  \/ \E captured \in BOOLEAN, c \in ScreenFixes : LocationCallback(captured, c)
  \/ \E captured \in BOOLEAN : RemoveSubscription(captured)
  \/ \E c \in ScreenFixes : CurrentPosition(c)
  \/ SetEntryExitPress
  \/ GenerateMazeGrid
  \/ LoopExit
  \/ CarveThrow
  \/ CarveBreak
  \/ CarvePop
  \/ CarvePush
  \/ Publish
  \/ ClosePopup

Spec == Init /\ [][Next]_vars

(* ---- helpers of the properties ---- *)
\* the cell c lies in [0, rows) x [0, cols)
InGrid(c) == c[1] \in 0..(rows - 1) /\ c[2] \in 0..(cols - 1)
Abs(n) == IF n < 0 THEN -n ELSE n
Adjacent4(a, b) == Abs(a[1] - b[1]) + Abs(a[2] - b[2]) = 1
PassableNeighbours(P, c) == {d \in P : Adjacent4(c, d)}

RECURSIVE ReachIn(_, _)
\* the cells of P that are 4-connected within P to a cell of S
ReachIn(P, S) ==
  LET more == {d \in P \ S : \E c \in S : Adjacent4(c, d)}
  IN IF more = {} THEN S ELSE ReachIn(P, S \cup more)

\* P is exactly one simple 4-connected path from s to e
IsSimplePath(P, s, e) ==
  /\ s \in P
  /\ e \in P
  /\ IF s = e
     THEN P = {s}
     ELSE \A c \in P :
            Cardinality(PassableNeighbours(P, c)) = (IF c \in {s, e} THEN 1 ELSE 2)
  /\ ReachIn(P, {s}) = P

\* the loop was left by the break at the end cell
Success == pc = "publish" /\ stack # <<>>

(* ---- C1 ---- *)
\* C1: after a successful carve with in-bounds start and end, the cells holding 1 are
\* exactly one simple 4-connected path from start to end (degree 1 at start and end,
\* degree 2 elsewhere, no cell left over from backtracking).
C1_PassableIsSimplePath ==
  (Success /\ InGrid(start) /\ InGrid(end)) => IsSimplePath(Passable(grid), start, end)

(* ---- C2 ---- *)
\* C2: with rows >= 1, cols >= 1 and start and end in bounds, the stack is never empty
\* in the loop, and the loop is left with the end cell on top of the stack and marked.
C2_EndAlwaysReached ==
  (pc \in {"loop", "publish"} /\ rows >= 1 /\ cols >= 1 /\ InGrid(start) /\ InGrid(end))
    => /\ stack # <<>>
       /\ pc = "publish" => (Top(stack) = end /\ end \in Passable(grid))

\* a carve on a grid of two rows and two columns at least that backtracked and
\* then reached the end
C2_Witness ==
  /\ Success
  /\ InGrid(start) /\ InGrid(end)
  /\ rows >= 2 /\ cols >= 2
  /\ pops > 0

(* ---- C3 ---- *)
\* C3: with an in-bounds start, no cell is pushed twice, at most rows x cols pushes and
\* rows x cols pops are performed, every iteration that stays in the loop is one push
\* or one pop, and the loop is left.
C3_PushesBounded ==
  InGrid(start) =>
    /\ pushes = Len(pushLog)
    /\ \A i, j \in 1..Len(pushLog) : i # j => pushLog[i] # pushLog[j]
    /\ pushes <= rows * cols
    /\ pops <= rows * cols

C3_Terminates ==
  /\ []C3_PushesBounded
  /\ [][(pc = "loop" /\ pc' = "loop") => pushes' + pops' = pushes + pops + 1]_vars
  /\ (pc = "loop" /\ InGrid(start)) ~> (pc # "loop")

\* a carve from an in-bounds start that pushed and popped and has left the loop
C3_Witness ==
  /\ pc = "publish"
  /\ InGrid(start)
  /\ pushes >= 3
  /\ pops >= 2

(* ---- C4 ---- *)
Max2(a, b) == IF a >= b THEN a ELSE b
LatSpanTicks == maxLat(path) - minLat(path)
LonSpanTicks == maxLon(path) - minLon(path)

\* C4: for a path of at least 2 points the grid has
\* rows = max(1, ceil(latSpanMeters / resolutionMeters)) and
\* cols = max(1, ceil(lonSpanMeters / resolutionMeters)), so rows >= 1 and cols >= 1
\* also for a bounding box of zero span.
C4_RowsColsAtLeastOne ==
  pc = "loop" =>
    /\ rows = Max2(1, MathCeil(LatSpanTicks, TicksPerMeter * RESOLUTION_FACTOR))
    /\ cols = Max2(1, MathCeil(LonSpanTicks, TicksPerMeter * RESOLUTION_FACTOR))
    /\ rows >= 1
    /\ cols >= 1

(* ---- C5 ---- *)
InsideBox(coord) ==
  /\ minLat(path) <= coord.latitude /\ coord.latitude <= maxLat(path)
  /\ minLon(path) <= coord.longitude /\ coord.longitude <= maxLon(path)

ProjectsInside(coord, cell) ==
  /\ InGrid(cell)
  /\ coord.latitude = minLat(path) => cell[1] = 0
  /\ coord.latitude = maxLat(path) => cell[1] = rows - 1
  /\ coord.longitude = minLon(path) => cell[2] = 0
  /\ coord.longitude = maxLon(path) => cell[2] = cols - 1

\* C5: a coordinate inside the bounding box of the path, its edges included, projects
\* into [0, rows) x [0, cols); minLat projects to row 0 and maxLat to row rows - 1,
\* and so for longitude and columns.  Stated for bounding boxes of non-zero span, so
\* that the grid has a row and a column to project into.
C5_ProjectionInBounds ==
  (pc = "loop" /\ LatSpanTicks > 0 /\ LonSpanTicks > 0) =>
    /\ InsideBox(entryPoint) => ProjectsInside(entryPoint, start)
    /\ InsideBox(exitPoint) => ProjectsInside(exitPoint, end)

(* ---- C6 ---- *)
\* C6: an entry or exit that projects outside the grid is rejected before carving:
\* the carve loop is never entered with a start or end cell out of bounds.  Stated
\* for grids of a row and a column at least.
C6_OutOfBoundsRejected ==
  (pc = "loop" /\ rows >= 1 /\ cols >= 1) => (InGrid(start) /\ InGrid(end))

(* ---- C7 ---- *)
\* C7: when the loop is left with an empty stack (the end was not reached), the
\* failure is reported and the grid is not published: arrayGrid and showGridPopup
\* keep their values.
C7_ExhaustedNotPublished ==
  [][(pc = "publish" /\ stack = <<>>)
       => (arrayGrid' = arrayGrid /\ showGridPopup' = showGridPopup /\ alert' # "none")]_vars

(* ---- C8 ---- *)
\* C8: a call of generateMazeGrid with fewer than 2 path points, or without entry or
\* exit point, raises the alert and returns before a grid is allocated: the grid of
\* the call, arrayGrid and showGridPopup keep their values.
C8_MissingDataRejected ==
  [][(/\ pc = "idle"
      /\ requests' = requests + 1
      /\ (Len(path) < 2 \/ entryPoint = Null \/ exitPoint = Null))
       => /\ alert' = "Missing data to generate maze"
          /\ pc' = "idle"
          /\ ~thrown'
          /\ UNCHANGED <<arrayGrid, showGridPopup, locals>>]_vars

\* a call rejected for missing data while an earlier grid is published
C8_Witness ==
  /\ alert = "Missing data to generate maze"
  /\ requests = 2
  /\ arrayGrid # NullGrid
  /\ pc = "idle"

(* ---- C9 ---- *)
\* C9: when the start cell equals the end cell and is in bounds, the loop is left in
\* its first iteration: nothing is pushed or popped, and the grid holds 1 in that
\* cell alone.
C9_SingleCell ==
  (pc \in {"loop", "publish"} /\ start = end /\ InGrid(start))
    => /\ pushes = 0
       /\ pops = 0
       /\ stack = <<start>>
       /\ pc = "publish" => Passable(grid) = {start}

\* a carve with start = end on a grid of more than one cell, after the loop
C9_Witness ==
  /\ pc = "publish"
  /\ start = end
  /\ InGrid(start)
  /\ rows * cols > 1
  /\ Passable(grid) = {start}

(* ---- C10 ---- *)
\* C10: two carve runs on the same path, entry point and exit point produce the same
\* grid: the grid a second run is about to publish equals the grid the first run
\* published.
C10_SameInputsSameGrid ==
  (pc = "publish" /\ arrayGrid # NullGrid) => arrayGrid = SomeGrid(grid)

(* ---- C11 ---- *)
\* C11: the projection is monotonic and deterministic: a coordinate of smaller
\* latitude never projects to a larger row (and so for longitude and columns), and
\* equal coordinates project to equal cells.  Stated of the projected entry and exit
\* points against each other and against every tap.
C11_ProjectionMonotonic ==
  pc = "loop" =>
    /\ \A t \in Taps \cup {exitPoint} :
         LET cell == toGridCoords(t, path)
         IN /\ t.latitude < entryPoint.latitude => cell[1] <= start[1]
            /\ t.latitude > entryPoint.latitude => cell[1] >= start[1]
            /\ t.longitude < entryPoint.longitude => cell[2] <= start[2]
            /\ t.longitude > entryPoint.longitude => cell[2] >= start[2]
            /\ t = entryPoint => cell = start
    /\ entryPoint.latitude < exitPoint.latitude => start[1] <= end[1]
    /\ entryPoint.longitude < exitPoint.longitude => start[2] <= end[2]
    /\ entryPoint = exitPoint => start = end

\* an entry point south-east of the exit point, projected to a lower row and a
\* higher column
C11_Witness ==
  /\ pc = "loop"
  /\ entryPoint.latitude < exitPoint.latitude
  /\ start[1] < end[1]
  /\ exitPoint.longitude < entryPoint.longitude
  /\ end[2] < start[2]

(* ---- C12 ---- *)
ManhattanMinimum(s, e) == Abs(s[1] - e[1]) + Abs(s[2] - e[2]) + 1

\* C12: after a successful carve with in-bounds start and end, the number of cells
\* holding 1 is at least |r1 - r2| + |c1 - c2| + 1, at most rows x cols, and equal
\* to the depth of the stack when the end was reached.
C12_PassableCountIsPathLength ==
  (Success /\ InGrid(start) /\ InGrid(end)) =>
    /\ Cardinality(Passable(grid)) >= ManhattanMinimum(start, end)
    /\ Cardinality(Passable(grid)) <= rows * cols
    /\ Cardinality(Passable(grid)) = Len(stack)

(* ---- C14 ---- *)
\* the in-bounds 4-neighbours of c outside vis
FreeNeighbours(c, vis) ==
  {d \in {<<c[1] + 1, c[2]>>, <<c[1] - 1, c[2]>>, <<c[1], c[2] + 1>>, <<c[1], c[2] - 1>>} :
     InGrid(d) /\ d \notin vis}

\* C14: an iteration that stays in the loop pops exactly when the cell on top has no
\* in-bounds unvisited 4-neighbour, and otherwise pushes one of these neighbours; so
\* after a pop the loop pushes from the new top if it has such a neighbour and pops
\* again if it has none.
C14_PopOnlyAtDeadEnd ==
  [][(pc = "loop" /\ pc' = "loop") =>
       LET top == Top(stack)
           free == FreeNeighbours(top, visited \cup {top})
       IN IF free = {}
          THEN stack' = SubSeq(stack, 1, Len(stack) - 1)
          ELSE \E d \in free : stack' = Append(stack, d)]_vars

\* the loop has popped, and has then pushed a neighbour of the cell it fell back to
C14_Witness ==
  /\ pc = "loop"
  /\ pops > 0
  /\ Len(stack) >= 2
  /\ pushLog # <<>>
  /\ Top(stack) = pushLog[Len(pushLog)]
  /\ Top(stack) \notin visited

(* ---- C15 ---- *)
\* C15: at every iteration of the loop, for an in-bounds start, the stack is a simple
\* 4-connected path from the start cell: consecutive entries are 4-adjacent, no cell
\* occurs twice, every entry below the top is visited and holds 1, and every cell
\* that holds 1 is visited.
C15_StackIsSimplePath ==
  (pc = "loop" /\ InGrid(start)) =>
    /\ stack # <<>> => stack[1] = start
    /\ \A i \in 1..(Len(stack) - 1) : Adjacent4(stack[i], stack[i + 1])
    /\ \A i, j \in 1..Len(stack) : i # j => stack[i] # stack[j]
    /\ \A i \in 1..(Len(stack) - 1) :
         stack[i] \in visited /\ stack[i] \in Passable(grid)
    /\ Passable(grid) \subseteq visited

\* an iteration with three cells on the stack after a pop
C15_Witness ==
  /\ pc = "loop"
  /\ InGrid(start)
  /\ Len(stack) >= 3
  /\ pops > 0

(* ---- C13 ---- *)
\* C13: the tap that sets the exit point (selection mode on, entry point set, exit
\* point unset, a path of at least 2 points) triggers a maze generation that is not
\* rejected as "Missing data to generate maze".
C13_SecondTapGenerates ==
  [][(/\ entryExitMode
      /\ entryPoint # Null
      /\ exitPoint = Null
      /\ Len(path) >= 2
      /\ exitPoint' # Null)
     => alert' # "Missing data to generate maze"]_vars

(* ---- C16 ---- *)
\* C16: a step that starts tracking leaves the grid null, the entry and exit points
\* null, the selection mode off, and the path without any fix of the previous
\* session: the single current location, or empty when no location was ever received.
C16_StartDiscardsSession ==
  [][(~tracking /\ tracking') =>
       /\ arrayGrid' = NullGrid
       /\ entryPoint' = Null
       /\ exitPoint' = Null
       /\ ~entryExitMode'
       /\ path' = (IF location = Null THEN <<>> ELSE <<location>>)]_vars

\* a session started after a session that had a closed path, both points and a grid
C16_Witness ==
  /\ tracking
  /\ path = <<location>>
  /\ arrayGrid = NullGrid
  /\ entryPoint = Null
  /\ exitPoint = Null
  /\ ~entryExitMode
  /\ Passable(grid) # {}
  /\ requests > 0

(* ---- C17 ---- *)
\* C17: always, the exit point is set only if the entry point is set, the selection
\* mode is on only while the exit point is unset, and the alert "Entry and exit
\* points already set" is never shown; a step with the mode off sets neither point,
\* a step that sets the entry point leaves the exit point unset and the mode on, and
\* a step that sets the exit point leaves the entry point as it was and turns the
\* mode off.
C17_SelectionProtocol ==
  /\ [](/\ exitPoint # Null => entryPoint # Null
        /\ entryExitMode => exitPoint = Null
        /\ alert # "Entry and exit points already set")
  /\ [][/\ ~entryExitMode =>
             /\ entryPoint' \in {entryPoint, Null}
             /\ exitPoint' \in {exitPoint, Null}
        /\ (entryPoint = Null /\ entryPoint' # Null) =>
             /\ entryExitMode /\ entryExitMode'
             /\ exitPoint = Null /\ exitPoint' = Null
        /\ (exitPoint = Null /\ exitPoint' # Null) =>
             /\ entryExitMode /\ ~entryExitMode'
             /\ entryPoint # Null /\ entryPoint' = entryPoint]_vars

\* after the second tap: both points set, the mode off again
C17_Witness ==
  /\ ~tracking
  /\ entryPoint # Null
  /\ exitPoint # Null
  /\ ~entryExitMode
  /\ requests = 0
  /\ alert = "Missing data to generate maze"

(* ---- C18 ---- *)
\* C18: a step that begins and ends with tracking off leaves the path unchanged.
C18_NoAppendWhileStopped ==
  [][(~tracking /\ ~tracking') => path' = path]_vars

(* ---- C19 ---- *)
\* C19: a step that stops tracking appends the first point to a path of at least 2
\* points whose last point differs from it and leaves every other path unchanged;
\* and whenever tracking is off, a path of at least 2 points ends in its first point.
C19_StopClosesPath ==
  /\ [][(tracking /\ ~tracking') =>
          path' = (IF Len(path) >= 2 /\ path[1] # path[Len(path)]
                   THEN Append(path, path[1])
                   ELSE path)]_vars
  /\ []((~tracking /\ Len(path) >= 2) => path[1] = path[Len(path)])

====
